---- MODULE Spec2Model ----
(***************************************************************************)
(* DocQA backend (FastAPI + PostgreSQL + Chroma + Gemini).                 *)
(*                                                                         *)
(*   file_utils.py   chunk_text: whitespace split, overlapping chunks      *)
(*   main.py         /register /login /upload /query /history over one     *)
(*                   module-level psycopg2 connection and cursor           *)
(*                                                                         *)
(* Text is a TLA+ string; TLC evaluates Len, \o and SubSeq on strings, so  *)
(* splitting and joining are computed character by character.              *)
(***************************************************************************)
EXTENDS Integers, Sequences, FiniteSets, TLC

\* ------------------------------------------------------------------ bounds
MaxTextLen == 5
MaxChars == 4
MaxOverlap == 3
MaxStore == 4
MaxTopK == 4
MaxSerial == 2
MaxStorePar == 1

\* ------------------------------------------------------ file_utils.py

\* Characters the chunker is exercised on: two letters and two of the
\* characters \s matches.
Alphabet == {"a", "b", " ", "\n"}

\* The characters of Alphabet that the regular expression \s matches.
Whitespace == {" ", "\n"}

RECURSIVE Texts(_)
\* Every string over Alphabet of at most n characters.
Texts(n) ==
  IF n = 0 THEN {""}
  ELSE LET S == Texts(n - 1) IN S \cup {s \o c : s \in S, c \in Alphabet}

Min(a, b) == IF a <= b THEN a ELSE b
Max(a, b) == IF a >= b THEN a ELSE b

\* s[i] for a 1-based index.
Char(s, i) == SubSeq(s, i, i)

\* The least index >= i of s holding whitespace, Len(s)+1 when there is none.
NextWs(s, i) ==
  LET W == {j \in i..Len(s) : Char(s, j) \in Whitespace}
  IN IF W = {} THEN Len(s) + 1 ELSE CHOOSE j \in W : \A k \in W : j <= k

\* The least index >= i of s not holding whitespace, Len(s)+1 when none.
NextNonWs(s, i) ==
  LET W == {j \in i..Len(s) : Char(s, j) \notin Whitespace}
  IN IF W = {} THEN Len(s) + 1 ELSE CHOOSE j \in W : \A k \in W : j <= k

RECURSIVE SplitFrom(_, _)
\* The pieces of s from index i on, i being the start of a piece: a piece ends
\* at the next run of whitespace, and a run at the end of s leaves an empty
\* last piece.
SplitFrom(s, i) ==
  LET e == NextWs(s, i)
      piece == SubSeq(s, i, e - 1)
  IN IF e > Len(s) THEN <<piece>>
     ELSE <<piece>> \o SplitFrom(s, NextNonWs(s, e))

\* re.split(r"\s+", text): never empty; "" gives <<"">>.
re_split(text) == SplitFrom(text, 1)

RECURSIVE join(_)
\* " ".join(words)
join(words) ==
  IF words = <<>> THEN ""
  ELSE IF Len(words) = 1 THEN words[1]
  ELSE words[1] \o " " \o join(Tail(words))

\* Python's list[start:] for any integer start.
SliceFrom(list, start) ==
  LET n == Len(list)
      s == IF start < 0 THEN Max(n + start, 0) ELSE Min(start, n)
  IN SubSeq(list, s + 1, n)

\* cur_chunk[-overlap:]
Retain(cur_chunk, overlap) == SliceFrom(cur_chunk, 0 - overlap)

RECURSIVE LenEstimate(_)
\* sum(len(w) + 1 for w in words)
LenEstimate(words) ==
  IF words = <<>> THEN 0
  ELSE Len(words[1]) + 1 + LenEstimate(Tail(words))

\* The locals of chunk_text before its loop.
ChunkStart == [chunks |-> <<>>, cur_chunk |-> <<>>, cur_len |-> 0]

\* One iteration of the loop of chunk_text on `word`.
LoopBody(st, word, max_chars, overlap) ==
  LET cc == Append(st.cur_chunk, word)
      cl == st.cur_len + Len(word) + 1
  IN IF cl >= max_chars
     THEN [chunks |-> Append(st.chunks, join(cc)),
           cur_chunk |-> Retain(cc, overlap),
           cur_len |-> LenEstimate(Retain(cc, overlap))]
     ELSE [chunks |-> st.chunks, cur_chunk |-> cc, cur_len |-> cl]

\* A mutant of Flush: the buffer left after the loop is dropped.
FlushDropsRest(st) == st.chunks

\* After the loop: a non-empty buffer is one more chunk.
Flush(st) ==
  IF st.cur_chunk # <<>> THEN Append(st.chunks, join(st.cur_chunk))
  ELSE st.chunks

RECURSIVE LoopFrom(_, _, _, _, _)
\* The loop of chunk_text over words[i..].
LoopFrom(st, words, i, max_chars, overlap) ==
  IF i > Len(words) THEN st
  ELSE LoopFrom(LoopBody(st, words[i], max_chars, overlap), words, i + 1,
                max_chars, overlap)

\* chunk_text(text, max_chars, overlap) as one value.
chunk_text(text, max_chars, overlap) ==
  Flush(LoopFrom(ChunkStart, re_split(text), 1, max_chars, overlap))

\* ------------------------------------------------------------ main.py

\* chunk_text(text, max_chars=800) in upload, and the default of overlap.
UploadMaxChars == 800
DefaultOverlap == 100

RECURSIVE Rep(_, _)
\* The string s repeated n times.
Rep(s, n) ==
  IF n = 0 THEN ""
  ELSE LET h == Rep(s, n \div 2)
       IN IF n % 2 = 0 THEN h \o h ELSE h \o h \o s

\* A three-chunk document: two words whose length estimate alone reaches 800.
LongDoc == Rep("x", 799) \o " " \o Rep("y", 799)

\* A two-chunk document: one such word.
LongWord == Rep("z", 799)

\* The files uploaded; a text extractor returns its file's content.
Files ==
  {[filename |-> "docA.txt", content |-> LongDoc],
   [filename |-> "docB.TXT", content |-> "x y"],
   [filename |-> "docC.txt", content |-> LongWord],
   [filename |-> "empty.txt", content |-> ""],
   [filename |-> "img.png", content |-> "x y"]}

Usernames == {"u1", "u2"}
Passwords == {"p", "q"}
Queries == {"what?"}
Answers == {"answer"}
Threads == {"t1", "t2"}

\* What the requests of a run are drawn from: one worker serving every
\* request, and two workers serving small requests side by side.
Serial ==
  [workers |-> {"t1"}, files |-> Files, register_passwords |-> {"p"},
   top_ks |-> 1..MaxTopK, max_store |-> MaxStore]
Parallel ==
  [workers |-> Threads,
   files |-> {f \in Files : f.filename \in {"docB.TXT", "img.png"}},
   register_passwords |-> {"p"}, top_ks |-> {1}, max_store |-> MaxStorePar]

\* str.lower() on the letters the file names hold.
Lower(c) ==
  CASE c = "T" -> "t"
    [] c = "X" -> "x"
    [] OTHER -> c

RECURSIVE lower(_)
lower(s) == IF s = "" THEN "" ELSE Lower(Char(s, 1)) \o lower(SubSeq(s, 2, Len(s)))

\* filename.split('.')[-1].lower()
Ext(filename) ==
  LET D == {j \in 1..Len(filename) : Char(filename, j) = "."}
      last == IF D = {} THEN 0 ELSE CHOOSE j \in D : \A k \in D : k <= j
  IN lower(SubSeq(filename, last + 1, Len(filename)))

\* The columns of CREATE TABLE chats.
ChatsColumns == {"id", "user_id", "query", "response", "timestamp"}

\* The columns INSERT INTO chats names in query_endpoint.
InsertChatColumns == {"user_id", "question", "answer"}

\* The columns the SELECT of get_history names.
HistoryColumns == {"question", "answer", "created_at", "user_id"}

\* A statement on chats runs only when the table has every column it names;
\* otherwise PostgreSQL raises UndefinedColumn.
ColumnsExist(cols) == cols \subseteq ChatsColumns

\* The state of the shared cursor: no result set, or the rows not yet fetched.
NoResult == [has |-> FALSE, rows |-> <<>>]
ResultSet(rows) == [has |-> TRUE, rows |-> rows]

\* SELECT id, username FROM users WHERE username=%s
SelectUser(rows, username) ==
  IF \E r \in rows : r.username = username
  THEN LET r == CHOOSE r \in rows : r.username = username
       IN <<[id |-> r.id, username |-> r.username]>>
  ELSE <<>>

\* SELECT id, username FROM users WHERE username=%s AND password=%s
SelectLogin(rows, username, password) ==
  IF \E r \in rows : r.username = username /\ r.password = password
  THEN LET r == CHOOSE r \in rows : r.username = username /\ r.password = password
       IN <<[id |-> r.id, username |-> r.username]>>
  ELSE <<>>

\* A mutant of NResults: one more neighbour than asked for.
NResultsOneMore(top_k) == top_k + 1

\* n_results=q.top_k
NResults(top_k) == top_k

\* A mutant of Metadatas: positions counted from 1.
MetadatasFromOne(filename, chunks) ==
  [i \in 1..Len(chunks) |-> [source_filename |-> filename, ord |-> i,
                             text_snippet |-> SubSeq(chunks[i], 1, Min(200, Len(chunks[i])))]]

\* metadatas = [{"source_filename": filename, "ord": i, "text_snippet":
\* chunk[:200]} for i, chunk in enumerate(chunks)]
Metadatas(filename, chunks) ==
  [i \in 1..Len(chunks) |-> [source_filename |-> filename, ord |-> i - 1,
                             text_snippet |-> SubSeq(chunks[i], 1, Min(200, Len(chunks[i])))]]

\* collection.add(documents, embeddings, ids, metadatas): one entry per chunk,
\* appended in order; an id is uuid4().hex, modelled as the next unused number.
Added(coll, chunks, metadatas) ==
  coll \o [i \in 1..Len(chunks) |->
             [id |-> Len(coll) + i, document |-> chunks[i], metadata |-> metadatas[i]]]

\* collection.query(n_results=n): the n nearest entries (all of them when the
\* collection holds fewer), each once, in an order the embeddings decide.
QueryResults(coll, n) ==
  LET m == Min(n, Len(coll))
  IN {h \in [1..m -> 1..Len(coll)] : \A i, j \in 1..m : i # j => h[i] # h[j]}

\* results["documents"][0] and results["metadatas"][0] for hits h.
ResultDocuments(coll, h) == [i \in 1..Len(h) |-> coll[h[i]].document]
ResultMetadatas(coll, h) == [i \in 1..Len(h) |-> coll[h[i]].metadata]

\* A mutant of ContextBlocks: every document labelled with the first metadata.
ContextBlocksFirstMeta(documents, metadatas) ==
  [i \in 1..Min(Len(documents), Len(metadatas)) |->
     [source_filename |-> metadatas[1].source_filename, ord |-> metadatas[1].ord,
      doc |-> documents[i]]]

RECURSIVE MergeRuns(_, _, _)
\* The merge phase of an assembler: `done` are the finished blocks, `open` the
\* block being extended (<<>> when none) and `rest` the candidates left; a
\* candidate is absorbed when it has the open block's source and the position
\* right after the block's last one.
MergeRuns(done, open, rest) ==
  IF rest = <<>> THEN done \o open
  ELSE LET c == rest[1]
       IN IF /\ open # <<>>
             /\ c.source_filename = open[1].source_filename
             /\ c.ord = open[1].ord + open[1].run
          THEN MergeRuns(done,
                         <<[open[1] EXCEPT !.doc = @ \o "\n\n" \o c.doc, !.run = @ + 1]>>,
                         Tail(rest))
          ELSE MergeRuns(done \o open,
                         <<[source_filename |-> c.source_filename, ord |-> c.ord,
                            doc |-> c.doc, run |-> 1]>>,
                         Tail(rest))

\* Blocks with each list-adjacent, position-contiguous run merged into one.
MergeAdjacent(blocks) ==
  LET B == MergeRuns(<<>>, <<>>, blocks)
  IN [i \in 1..Len(B) |-> [source_filename |-> B[i].source_filename, ord |-> B[i].ord,
                           doc |-> B[i].doc]]

\* A mutant of ContextBlocks: contiguous neighbours merged.
ContextBlocksMerged(documents, metadatas) ==
  MergeAdjacent([i \in 1..Min(Len(documents), Len(metadatas)) |->
                   [source_filename |-> metadatas[i].source_filename,
                    ord |-> metadatas[i].ord, doc |-> documents[i]]])

\* The (doc, meta) pairs of zip(retrieved_chunks, retrieved_metadata), each
\* with the fields its block is formatted from.
ContextBlocks(documents, metadatas) ==
  [i \in 1..Min(Len(documents), Len(metadatas)) |->
     [source_filename |-> metadatas[i].source_filename, ord |-> metadatas[i].ord,
      doc |-> documents[i]]]

\* f"From {meta['source_filename']} (part {meta['ord']}): {doc}"
FormatBlock(b) ==
  "From " \o b.source_filename \o " (part " \o ToString(b.ord) \o "): " \o b.doc

RECURSIVE joinBlank(_)
\* "\n\n".join(strings)
joinBlank(strings) ==
  IF strings = <<>> THEN ""
  ELSE IF Len(strings) = 1 THEN strings[1]
  ELSE strings[1] \o "\n\n" \o joinBlank(Tail(strings))

\* context_text
context_text(blocks) == joinBlank([i \in 1..Len(blocks) |-> FormatBlock(blocks[i])])

\* ------------------------------------------------------------------ state
VARIABLES
  text,        \* chunk_text: the argument
  max_chars,   \* chunk_text: the argument
  overlap,     \* chunk_text: the argument
  words,       \* chunk_text: re.split's result
  idx,         \* chunk_text: the loop's position in words (1-based)
  loc,         \* chunk_text: chunks, cur_chunk, cur_len
  cpc,         \* chunk_text: "loop", "flush", "done" ("none": no call)
  users,       \* table users as the connection's transaction sees it
  users_committed, \* table users as last committed
  users_id_seq,    \* the sequence behind users.id SERIAL
  chats,       \* table chats
  aborted,     \* the connection's transaction is in the failed state
  cur,         \* the module-level cursor's pending result
  collection,  \* the Chroma collection "documents"
  th           \* per worker: the request it runs, its position and locals

cvars == <<text, max_chars, overlap, words, idx, loc, cpc>>

svars == <<users, users_committed, users_id_seq, chats, aborted, cur, collection, th>>

vars == <<cvars, svars>>

\* The state main.py's module body leaves: both tables created and committed,
\* the cursor without a result set, the collection as found (empty), no
\* request running.
Idle ==
  [pc |-> "idle", kind |-> "none", username |-> "", password |-> "", filename |-> "",
   doc |-> "", query |-> "", top_k |-> 0, user |-> <<>>, user_id |-> 0,
   n_results |-> 0, hits |-> <<>>, answer |-> "", status |-> 0, num_chunks |-> 0]

ServerStart ==
  /\ users = {}
  /\ users_committed = {}
  /\ users_id_seq = 0
  /\ chats = <<>>
  /\ aborted = FALSE
  /\ cur = NoResult
  /\ collection = <<>>
  /\ th = [t \in Threads |-> Idle]

\* No call of chunk_text is being stepped.
ChunkNone ==
  /\ text = ""
  /\ max_chars = UploadMaxChars
  /\ overlap = DefaultOverlap
  /\ words = <<>>
  /\ idx = 1
  /\ loc = ChunkStart
  /\ cpc = "none"

\* ------------------------------------------- chunk_text, step by step

\* A call of chunk_text, taken up to the start of its loop.
ChunkInit ==
  /\ text \in Texts(MaxTextLen)
  /\ max_chars \in 1..MaxChars
  /\ overlap \in 0..MaxOverlap
  /\ words = re_split(text)
  /\ idx = 1
  /\ loc = ChunkStart
  /\ cpc = "loop"
  /\ ServerStart

\* One iteration of `for word in words`.
ChunkLoop ==
  /\ cpc = "loop"
  /\ idx <= Len(words)
  /\ loc' = LoopBody(loc, words[idx], max_chars, overlap)
  /\ idx' = idx + 1
  /\ UNCHANGED <<text, max_chars, overlap, words, cpc, svars>>

\* The loop has run out of words.
ChunkLoopEnd ==
  /\ cpc = "loop"
  /\ idx > Len(words)
  /\ cpc' = "flush"
  /\ UNCHANGED <<text, max_chars, overlap, words, idx, loc, svars>>

\* `if cur_chunk: chunks.append(...)` and the return.
ChunkFlush ==
  /\ cpc = "flush"
  /\ loc' = [loc EXCEPT !.chunks = Flush(loc)]
  /\ cpc' = "done"
  /\ UNCHANGED <<text, max_chars, overlap, words, idx, svars>>

ChunkNext == ChunkLoop \/ ChunkLoopEnd \/ ChunkFlush

SpecChunk == ChunkInit /\ [][ChunkNext]_vars

\* ------------------------------------------------- main.py, the requests

\* The request ends with this HTTP status: the handler's locals are gone, and
\* what a successful handler returns is set by its action.
Ended(t, status) ==
  [th EXCEPT ![t] = [Idle EXCEPT !.pc = "done", !.kind = th[t].kind,
                                 !.username = th[t].username, !.status = status]]

\* conn.commit(): COMMIT of a failed transaction rolls it back.
Commit ==
  /\ users' = IF aborted THEN users_committed ELSE users
  /\ users_committed' = IF aborted THEN users_committed ELSE users
  /\ aborted' = FALSE

\* A worker takes a request. upload is the one `async def`: the event loop
\* runs one upload at a time, while the other handlers run on pool threads.
Receive(t, in) ==
  /\ th[t].pc = "idle"
  /\ \/ \E u \in Usernames, p \in in.register_passwords :
          /\ users_id_seq < MaxSerial
          /\ th' = [th EXCEPT ![t] = [Idle EXCEPT !.pc = "reg_insert", !.kind = "register",
                                                  !.username = u, !.password = p]]
     \/ \E u \in Usernames, p \in Passwords :
          th' = [th EXCEPT ![t] = [Idle EXCEPT !.pc = "login_select", !.kind = "login",
                                               !.username = u, !.password = p]]
     \/ \E u \in Usernames, f \in in.files :
          /\ \A o \in Threads : th[o].kind # "upload"
          /\ Len(collection) + Len(chunk_text(f.content, UploadMaxChars, DefaultOverlap))
               <= in.max_store
          /\ th' = [th EXCEPT ![t] = [Idle EXCEPT !.pc = "get_user", !.kind = "upload",
                                               !.username = u, !.filename = f.filename,
                                               !.doc = f.content]]
     \/ \E u \in Usernames, q \in Queries, k \in in.top_ks :
          th' = [th EXCEPT ![t] = [Idle EXCEPT !.pc = "get_user", !.kind = "query",
                                               !.username = u, !.query = q, !.top_k = k]]
     \/ \E u \in Usernames :
          th' = [th EXCEPT ![t] = [Idle EXCEPT !.pc = "get_user", !.kind = "history",
                                               !.username = u]]
  /\ UNCHANGED <<cvars, users, users_committed, users_id_seq, chats, aborted, cur, collection>>

\* register: cur.execute("INSERT INTO users ... RETURNING id"). In a failed
\* transaction the statement raises InFailedSqlTransaction, which the handler
\* does not catch; a taken username raises UniqueViolation (the sequence has
\* advanced) and fails the transaction.
RegisterInsert(t) ==
  /\ th[t].pc = "reg_insert"
  /\ IF aborted
     THEN /\ cur' = NoResult
          /\ th' = Ended(t, 500)
          /\ UNCHANGED <<users, users_id_seq, aborted>>
     ELSE IF \E r \in users : r.username = th[t].username
     THEN /\ users_id_seq' = users_id_seq + 1
          /\ aborted' = TRUE
          /\ cur' = NoResult
          /\ th' = [th EXCEPT ![t].pc = "reg_rollback"]
          /\ UNCHANGED users
     ELSE /\ users_id_seq' = users_id_seq + 1
          /\ users' = users \cup {[id |-> users_id_seq + 1, username |-> th[t].username,
                                   password |-> th[t].password]}
          /\ cur' = ResultSet(<<[id |-> users_id_seq + 1]>>)
          /\ th' = [th EXCEPT ![t].pc = "reg_fetch"]
          /\ UNCHANGED aborted
  /\ UNCHANGED <<cvars, users_committed, chats, collection>>

\* register: user_id = cur.fetchone()[0]. Without a result set fetchone raises
\* ProgrammingError; with none left it returns None and [0] raises TypeError.
RegisterFetch(t) ==
  /\ th[t].pc = "reg_fetch"
  /\ IF cur.has /\ cur.rows # <<>>
     THEN /\ th' = [th EXCEPT ![t].pc = "reg_commit", ![t].user_id = Head(cur.rows).id]
          /\ cur' = ResultSet(Tail(cur.rows))
     ELSE /\ th' = Ended(t, 500)
          /\ UNCHANGED cur
  /\ UNCHANGED <<cvars, users, users_committed, users_id_seq, chats, aborted, collection>>

\* register: conn.commit() and the response.
RegisterCommit(t) ==
  /\ th[t].pc = "reg_commit"
  /\ Commit
  /\ th' = [Ended(t, 200) EXCEPT ![t].user_id = th[t].user_id]
  /\ UNCHANGED <<cvars, users_id_seq, chats, cur, collection>>

\* register: except UniqueViolation: conn.rollback(), then 400.
RegisterRollback(t) ==
  /\ th[t].pc = "reg_rollback"
  /\ users' = users_committed
  /\ aborted' = FALSE
  /\ th' = Ended(t, 400)
  /\ UNCHANGED <<cvars, users_committed, users_id_seq, chats, cur, collection>>

\* login: cur.execute("SELECT ... WHERE username=%s AND password=%s")
LoginSelect(t) ==
  /\ th[t].pc = "login_select"
  /\ IF aborted
     THEN /\ cur' = NoResult
          /\ th' = Ended(t, 500)
     ELSE /\ cur' = ResultSet(SelectLogin(users, th[t].username, th[t].password))
          /\ th' = [th EXCEPT ![t].pc = "login_fetch"]
  /\ UNCHANGED <<cvars, users, users_committed, users_id_seq, chats, aborted, collection>>

\* login: res = cur.fetchone(); 401 when there is no row; the response reads
\* res[0] and res[1], and res[1] raises IndexError on a one-column row.
LoginFetch(t) ==
  /\ th[t].pc = "login_fetch"
  /\ IF ~cur.has
     THEN /\ th' = Ended(t, 500)
          /\ UNCHANGED cur
     ELSE IF cur.rows = <<>>
     THEN /\ th' = Ended(t, 401)
          /\ UNCHANGED cur
     ELSE /\ th' = [Ended(t, IF "username" \in DOMAIN Head(cur.rows) THEN 200 ELSE 500)
                      EXCEPT ![t].user = <<Head(cur.rows)>>]
          /\ cur' = ResultSet(Tail(cur.rows))
  /\ UNCHANGED <<cvars, users, users_committed, users_id_seq, chats, aborted, collection>>

\* get_user: cur.execute("SELECT id, username FROM users WHERE username=%s")
GetUserExecute(t) ==
  /\ th[t].pc = "get_user"
  /\ IF aborted
     THEN /\ cur' = NoResult
          /\ th' = Ended(t, 500)
     ELSE /\ cur' = ResultSet(SelectUser(users, th[t].username))
          /\ th' = [th EXCEPT ![t].pc = "get_user_fetch"]
  /\ UNCHANGED <<cvars, users, users_committed, users_id_seq, chats, aborted, collection>>

\* get_user: return cur.fetchone(), and the caller's `if not user: 401`.
GetUserFetch(t) ==
  /\ th[t].pc = "get_user_fetch"
  /\ IF ~cur.has
     THEN /\ th' = Ended(t, 500)
          /\ UNCHANGED cur
     ELSE IF cur.rows = <<>>
     THEN /\ th' = Ended(t, 401)
          /\ UNCHANGED cur
     ELSE /\ th' = [th EXCEPT ![t].pc = th[t].kind, ![t].user = <<Head(cur.rows)>>]
          /\ cur' = ResultSet(Tail(cur.rows))
  /\ UNCHANGED <<cvars, users, users_committed, users_id_seq, chats, aborted, collection>>

\* upload after get_user: the extension, the text, chunk_text, and one
\* collection.add. (`if not chunks` is kept as written.)
Upload(t) ==
  /\ th[t].pc = "upload"
  /\ LET ext == Ext(th[t].filename)
         chunks == chunk_text(th[t].doc, UploadMaxChars, DefaultOverlap)
     IN IF ext \notin {"pdf", "docx", "doc", "txt"}
        THEN /\ th' = Ended(t, 400)
             /\ UNCHANGED collection
        ELSE IF chunks = <<>>
        THEN /\ th' = Ended(t, 400)
             /\ UNCHANGED collection
        ELSE /\ collection' = Added(collection, chunks, Metadatas(th[t].filename, chunks))
             /\ th' = [Ended(t, 200) EXCEPT ![t].num_chunks = Len(chunks)]
  /\ UNCHANGED <<cvars, users, users_committed, users_id_seq, chats, aborted, cur>>

\* query_endpoint after get_user: collection.query, the context and the call
\* of the responder, which answers or raises.
Query(t) ==
  /\ th[t].pc = "query"
  /\ \E h \in QueryResults(collection, NResults(th[t].top_k)) :
       \/ \E a \in Answers :
            th' = [th EXCEPT ![t].pc = "query_save", ![t].n_results = NResults(th[t].top_k),
                             ![t].hits = h, ![t].answer = a]
       \/ th' = Ended(t, 500)
  /\ UNCHANGED <<cvars, users, users_committed, users_id_seq, chats, aborted, cur, collection>>

\* query_endpoint: cur.execute("INSERT INTO chats (user_id, question, answer)
\* ..."), conn.commit() and the response. The statement raises when chats lacks
\* a column it names, which fails the transaction and skips the commit.
QuerySave(t) ==
  /\ th[t].pc = "query_save"
  /\ IF aborted
     THEN /\ cur' = NoResult
          /\ th' = Ended(t, 500)
          /\ UNCHANGED <<users, users_committed, chats, aborted>>
     ELSE IF ~ColumnsExist(InsertChatColumns)
     THEN /\ aborted' = TRUE
          /\ cur' = NoResult
          /\ th' = Ended(t, 500)
          /\ UNCHANGED <<users, users_committed, chats>>
     ELSE /\ chats' = Append(chats, [user_id |-> th[t].user[1].id, question |-> th[t].query,
                                     answer |-> th[t].answer])
          /\ Commit
          /\ cur' = NoResult
          /\ th' = [Ended(t, 200) EXCEPT ![t].query = th[t].query, ![t].answer = th[t].answer,
                                         ![t].hits = th[t].hits]
  /\ UNCHANGED <<cvars, users_id_seq, collection>>

\* get_history after get_user: a cursor of its own runs "SELECT question,
\* answer, created_at FROM chats WHERE user_id=%s ORDER BY created_at DESC".
History(t) ==
  /\ th[t].pc = "history"
  /\ IF aborted
     THEN /\ th' = Ended(t, 500)
          /\ UNCHANGED aborted
     ELSE IF ~ColumnsExist(HistoryColumns)
     THEN /\ aborted' = TRUE
          /\ th' = Ended(t, 500)
     ELSE /\ th' = Ended(t, 200)
          /\ UNCHANGED aborted
  /\ UNCHANGED <<cvars, users, users_committed, users_id_seq, chats, cur, collection>>

\* The response is sent; the worker is free again.
Respond(t) ==
  /\ th[t].pc = "done"
  /\ th' = [th EXCEPT ![t] = Idle]
  /\ UNCHANGED <<cvars, users, users_committed, users_id_seq, chats, aborted, cur, collection>>

Next ==
  \E t \in Serial.workers :
    \/ Receive(t, Serial)
    \/ RegisterInsert(t)
    \/ RegisterFetch(t)
    \/ RegisterCommit(t)
    \/ RegisterRollback(t)
    \/ LoginSelect(t)
    \/ LoginFetch(t)
    \/ GetUserExecute(t)
    \/ GetUserFetch(t)
    \/ Upload(t)
    \/ Query(t)
    \/ QuerySave(t)
    \/ History(t)
    \/ Respond(t)

NextPar ==
  \E t \in Parallel.workers :
    \/ Receive(t, Parallel)
    \/ RegisterInsert(t)
    \/ RegisterFetch(t)
    \/ RegisterCommit(t)
    \/ RegisterRollback(t)
    \/ LoginSelect(t)
    \/ LoginFetch(t)
    \/ GetUserExecute(t)
    \/ GetUserFetch(t)
    \/ Upload(t)
    \/ Query(t)
    \/ QuerySave(t)
    \/ History(t)
    \/ Respond(t)

Init == ChunkNone /\ ServerStart

\* One worker: the requests run one after the other.
Spec == Init /\ [][Next]_vars

\* Two workers: the handlers' steps interleave.
SpecPar == Init /\ [][NextPar]_vars

\* ------------------------------------------------- chunk_text: properties

\* The whitespace-delimited tokens of a string.
Tokens(s) == SelectSeq(re_split(s), LAMBDA w : w # "")

\* The tokens of each chunk returned so far, read back from the chunk's text.
ChunkTokens == [k \in 1..Len(loc.chunks) |-> Tokens(loc.chunks[k])]

\* How many leading tokens of chunk k repeat the end of chunk k-1.
Carried(k) ==
  IF k = 1 THEN 0
  ELSE Min(Min(overlap, Len(ChunkTokens[k - 1])), Len(ChunkTokens[k]))

\* The tokens of chunk k after the carried ones.
Fresh(k) == SubSeq(ChunkTokens[k], Carried(k) + 1, Len(ChunkTokens[k]))

RECURSIVE ConcatFresh(_)
ConcatFresh(k) == IF k = 0 THEN <<>> ELSE ConcatFresh(k - 1) \o Fresh(k)

\* The last n elements of a sequence.
LastN(list, n) == SubSeq(list, Len(list) - n + 1, Len(list))

\* The loop step being taken appends a chunk.
Emits == cpc = "loop" /\ idx' = idx + 1 /\ Len(loc'.chunks) = Len(loc.chunks) + 1

\* C1. Chunk coverage: for a non-empty text and overlap >= 1, the chunks read
\* in order hold every token of the text in the original order; what a chunk
\* repeats is only the overlap carried from the chunk before it: with those
\* leading tokens dropped, the chunks concatenate to exactly the text's tokens.
ChunkCoverageC1 ==
  (cpc = "done" /\ text # "" /\ overlap >= 1) =>
    /\ ConcatFresh(Len(loc.chunks)) = Tokens(text)
    /\ \A k \in 2..Len(loc.chunks) :
         SubSeq(ChunkTokens[k], 1, Carried(k)) = LastN(ChunkTokens[k - 1], Carried(k))

\* C1 witness: a finished call with three tokens or more, three chunks or more,
\* and a chunk that both repeats carried tokens and adds fresh ones.
ChunkCoverageC1Witness ==
  /\ cpc = "done"
  /\ overlap >= 1
  /\ Len(Tokens(text)) >= 3
  /\ Len(loc.chunks) >= 3
  /\ \E k \in 2..Len(loc.chunks) : Carried(k) >= 1 /\ Fresh(k) # <<>>

\* C2. Empty input: chunk_text of the empty string, or of whitespace only,
\* returns no chunk at all, whatever max_chars and overlap are.
EmptyInputC2 ==
  (cpc = "done" /\ Tokens(text) = <<>>) => loc.chunks = <<>>

\* C7. Non-progress configurations fail fast: no call emits a chunk and is left
\* with a buffer whose character estimate has already reached max_chars (such
\* a call would have been rejected before its first chunk).
NonProgressFailsFastC7 ==
  [][Emits => loc'.cur_len < max_chars]_vars

\* C9. Overlap is a retained-token count: right after a chunk of m tokens is
\* emitted the buffer is the last min(overlap, m) tokens of that chunk, with
\* its estimate recomputed from them; with overlap = 0 it is empty.
OverlapRetainedC9 ==
  [][Emits =>
       LET emitted == Append(loc.cur_chunk, words[idx])
       IN /\ loc'.cur_chunk = LastN(emitted, Min(overlap, Len(emitted)))
          /\ loc'.cur_len = LenEstimate(loc'.cur_chunk)
          /\ (overlap = 0 => loc'.cur_chunk = <<>>)]_vars

\* ---------------------------------------------------- main.py: properties

\* The (source, position) of a stored entry, a candidate or a block.
Key(m) == <<m.source_filename, m.ord>>

\* No two elements of a sequence of keys are equal.
NoRepeat(keys) == \A i, j \in DOMAIN keys : i # j => keys[i] # keys[j]

StoredKeys == [i \in DOMAIN collection |-> Key(collection[i].metadata)]

\* Worker t runs a /query whose candidates have come back from the store.
Retrieved(t) == th[t].kind = "query" /\ th[t].n_results > 0

\* The ranked candidates of worker t's query, as the store returned them.
Candidates(t) ==
  [i \in 1..Len(th[t].hits) |->
     [source_filename |-> collection[th[t].hits[i]].metadata.source_filename,
      ord |-> collection[th[t].hits[i]].metadata.ord,
      doc |-> collection[th[t].hits[i]].document]]

\* The context blocks query_endpoint builds from worker t's results.
Blocks(t) ==
  ContextBlocks(ResultDocuments(collection, th[t].hits),
                ResultMetadatas(collection, th[t].hits))

RECURSIVE Dedup(_, _, _)
\* The candidates with every repeated key removed, first occurrence kept,
\* stopping once quota distinct ones are kept; `kept` accumulates.
Dedup(kept, rest, quota) ==
  IF rest = <<>> \/ Len(kept) >= quota THEN kept
  ELSE IF \E i \in DOMAIN kept : Key(kept[i]) = Key(rest[1])
  THEN Dedup(kept, Tail(rest), quota)
  ELSE Dedup(Append(kept, rest[1]), Tail(rest), quota)

\* The blocks the handler's code builds from a candidate list.
BlocksOf(cands) ==
  ContextBlocks([i \in DOMAIN cands |-> cands[i].doc],
                [i \in DOMAIN cands |-> [source_filename |-> cands[i].source_filename,
                                         ord |-> cands[i].ord]])

KeysOf(seq) == [i \in DOMAIN seq |-> Key(seq[i])]

\* The candidate keys of the merge scenario.
ScenarioKeys ==
  <<<<"docA.txt", 0>>, <<"docA.txt", 1>>, <<"docB.TXT", 0>>, <<"docA.txt", 2>>>>

\* C3. Stored positions are unique per source: no two stored chunks share a
\* (source_filename, ord) pair, and a source's positions have no gaps, also
\* after the same filename was uploaded again.
UniquePositionsC3 ==
  LET keys == StoredKeys
  IN /\ NoRepeat(keys)
     /\ \A i \in DOMAIN keys :
          keys[i][2] > 0 => \E j \in DOMAIN keys : keys[j] = <<keys[i][1], keys[i][2] - 1>>

\* C3 as amended. The chunks one /upload writes carry positions 0, 1, 2, ...
\* with no gaps and no repeats, under ids no other chunk has; a pair
\* (source_filename, ord) is stored once per upload of that filename that
\* reached the position, so never more often than (source_filename, 0).
PositionsPerUploadC3 ==
  LET keys == StoredKeys
  IN /\ NoRepeat([i \in DOMAIN collection |-> collection[i].id])
     /\ \A i \in DOMAIN keys :
          \/ keys[i][2] = 0
          \/ /\ i > 1
             /\ keys[i - 1] = <<keys[i][1], keys[i][2] - 1>>
     /\ \A i \in DOMAIN keys :
          Cardinality({j \in DOMAIN keys : keys[j] = keys[i]})
            <= Cardinality({j \in DOMAIN keys : keys[j] = <<keys[i][1], 0>>})

\* C3 witness: a filename uploaded twice, each upload with positions 0 and 1.
PositionsPerUploadC3Witness ==
  \E i, j \in DOMAIN collection :
    /\ i < j
    /\ StoredKeys[i] = StoredKeys[j]
    /\ collection[i].metadata.ord = 1

RequestIsolationC8 ==
  \A t \in Threads :
    (th[t].kind \in {"upload", "query", "history"} /\ th[t].user # <<>>) =>
      /\ "username" \in DOMAIN th[t].user[1]
      /\ th[t].user[1].username = th[t].username

\* C10. A query is answered and recorded: when a registered user's /query got
\* its candidates and its answer, saving the exchange ends the request with
\* status 200, the exchange is in chats for a later /history, and the
\* connection is left usable for the requests that follow.
QueryRecordedC10 ==
  [][\A t \in Threads :
       (th[t].pc = "query_save" /\ th'[t].pc = "done") =>
         /\ th'[t].status = 200
         /\ \E i \in DOMAIN chats' :
              chats'[i] = [user_id |-> th[t].user[1].id, question |-> th[t].query,
                           answer |-> th[t].answer]
         /\ ~aborted']_vars

====
